---- MODULE Spec2Model ----
(***************************************************************************)
(* TwinCycle-AI core: the assess pipeline (core/engine.py) and the         *)
(* incentive pipeline (core/incentive.py) as a state machine over one      *)
(* caller-owned input payload.                                             *)
(*                                                                         *)
(* Numbers.  The code computes in binary floating point; the model         *)
(* computes the same formulas exactly, in integers scaled by a fixed       *)
(* denominator (named at each formula), and rounds half-to-even as         *)
(* Python's round does.  frame_drop_rate is carried in hundredths.         *)
(* Hash and generator.  SHA-256 and the Mersenne Twister are replaced by a *)
(* polynomial hash of the canonical encoding and a 16-bit linear           *)
(* congruential generator: both are deterministic functions of the same    *)
(* arguments as in the code, which is all the pipelines rely on.           *)
(***************************************************************************)
EXTENDS Integers, Sequences, FiniteSets, TLC

(***************************************************************************)
(* JSON values.  Every value has the same shape so that any two can be     *)
(* compared: kind, a number n (the integer, 0/1 for a boolean, hundredths  *)
(* for a float) and a string s.  "absent" is a key that is not in its      *)
(* dict.                                                                   *)
(***************************************************************************)
JAbsent == [kind |-> "absent", n |-> 0, s |-> ""]
JNull == [kind |-> "null", n |-> 0, s |-> ""]
JBool(b) == [kind |-> "bool", n |-> IF b THEN 1 ELSE 0, s |-> ""]
JInt(i) == [kind |-> "int", n |-> i, s |-> ""]
JFloat(h) == [kind |-> "float", n |-> h, s |-> ""]
JStr(t) == [kind |-> "str", n |-> 0, s |-> t]
JList == [kind |-> "list", n |-> 0, s |-> ""]
JObject == [kind |-> "object", n |-> 0, s |-> ""]

DeviceKeys == {"brand", "model", "age_months"}
SignalKeys == {"battery_health_percent", "charge_cycles", "frame_drop_rate",
               "repair_history_count"}
PrefKeys == {"budget_priority", "sustainability_priority", "performance_priority",
             "prefers_financing"}
SectionKeys == {"device", "signals", "user_preferences"}

KeysOf(section) ==
    CASE section = "device" -> DeviceKeys
      [] section = "signals" -> SignalKeys
      [] OTHER -> PrefKeys

\* A dict section of the payload; a section that is not a dict has another kind
\* and no entries.
Section(entries) == [kind |-> "object", f |-> entries]
NonDict(kind, section) == [kind |-> kind, f |-> [k \in KeysOf(section) |-> JAbsent]]

\* dict.get(key): None for a missing key.
Get(sec, key) == IF sec.f[key].kind = "absent" THEN JNull ELSE sec.f[key]

\* isinstance(x, int): bool is a subclass of int in Python.
IsInstanceInt(v) == v.kind \in {"int", "bool"}
\* isinstance(x, (int, float))
IsInstanceNumber(v) == v.kind \in {"int", "bool", "float"}
\* float(x) in hundredths
FloatOf(v) == IF v.kind = "float" THEN v.n ELSE v.n * 100
\* list and dict are unhashable: "x in {...}" raises TypeError
Unhashable(v) == v.kind \in {"list", "object"}
Priorities == {"low", "medium", "high"}

(***************************************************************************)
(* Outcomes of a check or of a call.                                       *)
(***************************************************************************)
Passed == [exc |-> "none", msg |-> ""]
Raise(exc, msg) == [exc |-> exc, msg |-> msg]
ValueError(msg) == Raise("ValueError", msg)
\* <non-dict>.get(...) : 'NoneType' object has no attribute 'get'
AttributeError(section) == Raise("AttributeError", section)
TypeError(field) == Raise("TypeError", field)

\* The first check of a sequence of checks that raises, as the statements run
\* in order and the first raise leaves the function.
RECURSIVE FirstRaise(_)
FirstRaise(checks) ==
    IF checks = << >> THEN Passed
    ELSE IF Head(checks).exc # "none" THEN Head(checks)
    ELSE FirstRaise(Tail(checks))

(***************************************************************************)
(* engine.py _validate_input_payload                                       *)
(***************************************************************************)
CheckTop(p) ==
    IF p.kind # "object" \/ \E k \in SectionKeys : p[k].kind = "absent"
    THEN ValueError("input_payload must include device, signals, user_preferences")
    ELSE Passed

CheckNonEmptyStr(p, key) ==
    IF p.device.kind # "object" THEN AttributeError("device")
    ELSE IF Get(p.device, key).kind # "str" \/ Get(p.device, key).s = ""
    THEN ValueError("device." \o key \o " must be non-empty string")
    ELSE Passed

CheckAge(p) ==
    IF p.device.kind # "object" THEN AttributeError("device")
    ELSE IF ~IsInstanceInt(Get(p.device, "age_months")) \/ Get(p.device, "age_months").n < 0
    THEN ValueError("device.age_months must be int >= 0")
    ELSE Passed

CheckBatteryType(p) ==
    IF p.signals.kind # "object" THEN AttributeError("signals")
    ELSE IF ~IsInstanceInt(Get(p.signals, "battery_health_percent"))
    THEN ValueError("signals.battery_health_percent must be int")
    ELSE Passed

CheckBatteryRange(p) ==
    IF ~(0 <= Get(p.signals, "battery_health_percent").n
         /\ Get(p.signals, "battery_health_percent").n <= 100)
    THEN ValueError("signals.battery_health_percent must be in [0, 100]")
    ELSE Passed

CheckNonNegInt(p, key) ==
    IF p.signals.kind # "object" THEN AttributeError("signals")
    ELSE IF ~IsInstanceInt(Get(p.signals, key)) \/ Get(p.signals, key).n < 0
    THEN ValueError("signals." \o key \o " must be int >= 0")
    ELSE Passed

CheckFrameType(p) ==
    IF p.signals.kind # "object" THEN AttributeError("signals")
    ELSE IF ~IsInstanceNumber(Get(p.signals, "frame_drop_rate"))
    THEN ValueError("signals.frame_drop_rate must be float")
    ELSE Passed

CheckFrameRange(p) ==
    IF ~(0 <= FloatOf(Get(p.signals, "frame_drop_rate"))
         /\ FloatOf(Get(p.signals, "frame_drop_rate")) <= 100)
    THEN ValueError("signals.frame_drop_rate must be in [0, 1]")
    ELSE Passed

CheckPriority(p, key) ==
    IF p.user_preferences.kind # "object" THEN AttributeError("user_preferences")
    ELSE IF Unhashable(Get(p.user_preferences, key))
    THEN TypeError("user_preferences." \o key)
    ELSE IF ~(Get(p.user_preferences, key).kind = "str"
              /\ Get(p.user_preferences, key).s \in Priorities)
    THEN ValueError("user_preferences." \o key \o " must be low|medium|high")
    ELSE Passed

CheckFinancing(p) ==
    IF p.user_preferences.kind # "object" THEN AttributeError("user_preferences")
    ELSE IF Get(p.user_preferences, "prefers_financing").kind # "bool"
    THEN ValueError("user_preferences.prefers_financing must be bool")
    ELSE Passed

SignalChecks(p) ==
    << CheckNonNegInt(p, "charge_cycles"),
       CheckFrameType(p),
       CheckFrameRange(p),
       CheckNonNegInt(p, "repair_history_count") >>

PrefChecks(p) ==
    << CheckPriority(p, "budget_priority"),
       CheckPriority(p, "sustainability_priority"),
       CheckPriority(p, "performance_priority"),
       CheckFinancing(p) >>

EngineChecks(p) ==
    << CheckTop(p),
       CheckNonEmptyStr(p, "brand"),
       CheckNonEmptyStr(p, "model"),
       CheckAge(p),
       CheckBatteryType(p),
       CheckBatteryRange(p) >>
    \o SignalChecks(p) \o PrefChecks(p)

EngineValidate(p) == FirstRaise(EngineChecks(p))

(***************************************************************************)
(* incentive.py _validate_input_payload                                    *)
(***************************************************************************)
CheckIsDict(p) ==
    IF p.kind # "object" THEN ValueError("input_payload must be a dict") ELSE Passed

CheckTopKeys(p) ==
    IF \E k \in SectionKeys : p[k].kind = "absent"
    THEN ValueError("input_payload must include device, signals, user_preferences")
    ELSE Passed

IncentiveChecks(p) ==
    << CheckIsDict(p), CheckTopKeys(p) >> \o SignalChecks(p) \o PrefChecks(p)

IncentiveValidate(p) == FirstRaise(IncentiveChecks(p))

(***************************************************************************)
(* Arithmetic helpers                                                      *)
(***************************************************************************)
Max(a, b) == IF a >= b THEN a ELSE b
Min(a, b) == IF a <= b THEN a ELSE b

\* engine.py / incentive.py clamp
clamp(value, min_value, max_value) == Max(min_value, Min(max_value, value))

\* round() of the non-negative fraction num/den to an integer, half to even
RoundDiv(num, den) ==
    LET q == num \div den
        r == num % den
    IN  IF 2 * r < den THEN q
        ELSE IF 2 * r > den THEN q + 1
        ELSE IF q % 2 = 0 THEN q ELSE q + 1

\* math.floor and math.ceil of num/den, den > 0
Floor(num, den) == num \div den
Ceil(num, den) == -((-num) \div den)

\* map_priority: low -> 1, medium -> 2, high -> 3
map_priority(priority) ==
    CASE priority = "low" -> 1
      [] priority = "medium" -> 2
      [] priority = "high" -> 3

(***************************************************************************)
(* The fields of a validated payload as the pipelines read them.           *)
(***************************************************************************)
AgeMonths(p) == p.device.f["age_months"].n
BatteryHealth(p) == p.signals.f["battery_health_percent"].n
ChargeCycles(p) == p.signals.f["charge_cycles"].n
FrameDrop(p) == FloatOf(p.signals.f["frame_drop_rate"])
RepairCount(p) == p.signals.f["repair_history_count"].n
BudgetPriority(p) == p.user_preferences.f["budget_priority"].s
SustainabilityPriority(p) == p.user_preferences.f["sustainability_priority"].s
PerformancePriority(p) == p.user_preferences.f["performance_priority"].s
PrefersFinancing(p) == p.user_preferences.f["prefers_financing"].n = 1

(***************************************************************************)
(* engine.py _compute_rul_and_confidence                                   *)
(* rul_point in 1/1200 month, risk in 1/2400, confidence and margin in     *)
(* 1/12000.                                                                *)
(***************************************************************************)
RulPoint(p) ==
    clamp(24 * 1200
            - clamp(AgeMonths(p) * 200, 0, 12 * 1200)
            - (100 - BatteryHealth(p)) * 120
            - ChargeCycles(p) * 3
            - FrameDrop(p) * 120
            - RepairCount(p) * 1800,
          1 * 1200, 30 * 1200)

\* The five contribution ratios in 1/2400, in the dict's insertion order
DriverNames ==
    << "battery_health_percent", "charge_cycles", "frame_drop_rate",
       "repair_history_count", "device_age_months" >>

Contributions(p) ==
    << (100 - BatteryHealth(p)) * 40,
       ChargeCycles(p) * 2,
       FrameDrop(p) * 60,
       RepairCount(p) * 600,
       AgeMonths(p) * 50 >>

Risk(p) ==
    Contributions(p)[5] + Contributions(p)[1] + Contributions(p)[2]
        + Contributions(p)[3] + Contributions(p)[4]

\* A faulty variant of ConfidenceScore: the clamp to [0.35, 0.90] is left out
UnclampedConfidence(p) == 12000 - Risk(p)

ConfidenceScore(p) == clamp(12000 - Risk(p), 35 * 120, 90 * 120)

ConfidenceLabel(score) ==
    IF score >= 80 * 120 THEN "high"
    ELSE IF score >= 60 * 120 THEN "medium-high"
    ELSE "medium"

Margin(p) == 2 * 12000 + (12000 - ConfidenceScore(p)) * 4

RulMin(p) == Max(1, Floor(RulPoint(p) * 10 - Margin(p), 12000))
RulMax(p) == Min(30, Ceil(RulPoint(p) * 10 + Margin(p), 12000))

\* frame_drop_rate / 0.4 is a division of two doubles, neither of them the
\* decimal it is written as: for a rate of h hundredths the quotient is the
\* double nearest to h/40 (0), the one below it (-1) or the one above it (1).
\* The other four ratios divide integers and are the doubles nearest to
\* their exact values.
FrameRatioError(h) ==
    IF h \in {7, 14, 28, 56} THEN 1
    ELSE IF h \in {1, 2, 4, 8, 9, 11, 15, 16, 18, 21, 22, 29, 30, 31, 32, 35, 36, 37,
                   42, 44, 47, 49, 57, 58, 59, 60, 62, 64, 69, 70, 72, 74, 83, 84, 88,
                   94, 95, 98, 99}
    THEN -1
    ELSE 0

\* The five contributions as the sort compares them: in 1/4800, the
\* frame-drop ratio moved by its rounding
SortKeys(p) ==
    [i \in 1..5 |->
        2 * Contributions(p)[i] + (IF i = 3 THEN FrameRatioError(FrameDrop(p)) ELSE 0)]

\* sorted(..., reverse=True) is stable: position of item i in the sorted list
SortedPosition(c, i) ==
    1 + Cardinality({j \in 1..Len(c) : c[j] > c[i] \/ (c[j] = c[i] /\ j < i)})

KeyDrivers(p) ==
    LET c == SortKeys(p)
    IN  [pos \in 1..3 |->
            DriverNames[CHOOSE i \in 1..Len(c) : SortedPosition(c, i) = pos]]

\* rul_estimate; confidence_score is reported in hundredths
ComputeRulAndConfidence(p) ==
    [rul_months_min |-> RulMin(p),
     rul_months_max |-> RulMax(p),
     confidence |-> ConfidenceLabel(ConfidenceScore(p)),
     confidence_score |-> RoundDiv(ConfidenceScore(p), 120),
     key_drivers |-> KeyDrivers(p)]

(***************************************************************************)
(* engine.py _compute_option_scores, in 1/360000                           *)
(***************************************************************************)
Unit == 3600 * 100

\* A faulty variant of HeavyUsageBlend: the clamp to [0, 1.2] is left out
HeavyUsageUnclamped(p) ==
    ChargeCycles(p) * 100 + FrameDrop(p) * 3000 + RepairCount(p) * 30000

HeavyUsageBlend(p) ==
    clamp(ChargeCycles(p) * 100 + FrameDrop(p) * 3000 + RepairCount(p) * 30000,
          0, 120 * 3600)

BatteryDegradation(p) == clamp((100 - BatteryHealth(p)) * 3600, 0, Unit)

RepairCost(p) == clamp(90 * 3600 - Max(AgeMonths(p) - 24, 0) * 720, 75 * 3600, 95 * 3600)
RepairSust(p) == clamp(90 * 3600 - Max(RepairCount(p) - 1, 0) * 3 * 3600, 75 * 3600, 95 * 3600)
RepairPerf(p) ==
    clamp(66 * 3600 - HeavyUsageBlend(p) \div 10 - (BatteryDegradation(p) * 6) \div 100,
          42 * 3600, 74 * 3600)

RefurbCost(p) == clamp(72 * 3600 - (HeavyUsageBlend(p) * 4) \div 100, 58 * 3600, 80 * 3600)
RefurbSust(p) == clamp(78 * 3600 - (HeavyUsageBlend(p) * 3) \div 100, 65 * 3600, 85 * 3600)
RefurbPerf(p) == clamp(81 * 3600 + (HeavyUsageBlend(p) * 7) \div 100, 70 * 3600, 92 * 3600)

TradeinCost(p) ==
    clamp(48 * 3600 + (IF PrefersFinancing(p) THEN 10 * 3600 ELSE 0)
            - (HeavyUsageBlend(p) * 2) \div 100,
          35 * 3600, 68 * 3600)
TradeinSust(p) == clamp(58 * 3600 - (HeavyUsageBlend(p) * 4) \div 100, 40 * 3600, 70 * 3600)
TradeinPerf(p) == clamp(93 * 3600 + (HeavyUsageBlend(p) * 3) \div 100, 90 * 3600, 99 * 3600)

\* The raw weights; weights[k] / TotalWeight is the normalised weight
Weights(p) ==
    [cost |-> map_priority(BudgetPriority(p)),
     sust |-> map_priority(SustainabilityPriority(p)),
     perf |-> map_priority(PerformancePriority(p))]

TotalWeight(p) == Weights(p).cost + Weights(p).sust + Weights(p).perf

\* A faulty variant of Overall: the raw weights 1..3 are used without dividing
\* by their sum
UnnormalisedOverall(p, cost, sust, perf) ==
    RoundDiv(cost * Weights(p).cost + sust * Weights(p).sust + perf * Weights(p).perf,
             3600)

\* round(cost * w_cost + sust * w_sust + perf * w_perf, 2), in hundredths
Overall(p, cost, sust, perf) ==
    RoundDiv(cost * Weights(p).cost + sust * Weights(p).sust + perf * Weights(p).perf,
             3600 * TotalWeight(p))

ScoreCard(p, cost, sust, perf) ==
    [cost_score |-> RoundDiv(cost, 3600),
     sustainability_score |-> RoundDiv(sust, 3600),
     performance_score |-> RoundDiv(perf, 3600),
     overall_score |-> Overall(p, cost, sust, perf)]

OptionIds == {"repair_battery", "refurb_buy", "tradein_new"}

ComputeOptionScores(p) ==
    [repair_battery |-> ScoreCard(p, RepairCost(p), RepairSust(p), RepairPerf(p)),
     refurb_buy |-> ScoreCard(p, RefurbCost(p), RefurbSust(p), RefurbPerf(p)),
     tradein_new |-> ScoreCard(p, TradeinCost(p), TradeinSust(p), TradeinPerf(p))]

(***************************************************************************)
(* _stable_seed: a hash of the canonical JSON text (keys sorted).  The     *)
(* text is modelled by the sequence of its values in key order, each with  *)
(* its kind, so that true, 1 and 1.0 encode differently as they do in JSON.*)
(***************************************************************************)
SeedSpace == 256 * 256

StrCode(t) ==
    CASE t = "" -> 0
      [] t = "low" -> 1
      [] t = "medium" -> 2
      [] t = "high" -> 3
      [] t = "urgent" -> 4
      [] t = "Samsung" -> 5
      [] t = "Apple" -> 6
      [] t = "Galaxy S22" -> 7
      [] t = "iPhone 13" -> 8
      [] t = "repair_battery" -> 9
      [] t = "refurb_buy" -> 10
      [] t = "tradein_new" -> 11
      [] t = "iPhone 14" -> 12
      [] OTHER -> 13

KindCode(kind) ==
    CASE kind = "absent" -> 0
      [] kind = "null" -> 1
      [] kind = "bool" -> 2
      [] kind = "int" -> 3
      [] kind = "float" -> 4
      [] kind = "str" -> 5
      [] kind = "list" -> 6
      [] OTHER -> 7

ValueCode(v) == KindCode(v.kind) * 8192 + (v.n % 8192) + StrCode(v.s)

RECURSIVE Digest(_, _)
Digest(h, values) ==
    IF values = << >> THEN h
    ELSE Digest((h * 131 + ValueCode(Head(values))) % SeedSpace, Tail(values))

\* json.dumps(payload, sort_keys=True): the values in sorted key order
CanonicalValues(p) ==
    << p.device.f["age_months"], p.device.f["brand"], p.device.f["model"],
       p.signals.f["battery_health_percent"], p.signals.f["charge_cycles"],
       p.signals.f["frame_drop_rate"], p.signals.f["repair_history_count"],
       p.user_preferences.f["budget_priority"],
       p.user_preferences.f["performance_priority"],
       p.user_preferences.f["prefers_financing"],
       p.user_preferences.f["sustainability_priority"] >>

\* engine.py _stable_seed(payload)
EngineStableSeed(p) == Digest(7, CanonicalValues(p))

\* incentive.py _stable_seed(input_payload, selected_option_id)
IncentiveStableSeed(p, selected_option_id) ==
    Digest(7, CanonicalValues(p) \o << selected_option_id >>)

(***************************************************************************)
(* random.Random: the generator's state, and the draws made from it.       *)
(***************************************************************************)
VARIABLES
    payload,    \* the caller's input dict, passed by reference to every call
    rng,        \* the state of the generator created last
    last,       \* the latest call: its arguments, how it ended, what it returned
    earlier     \* a call made before, kept by the caller to compare

vars == << payload, rng, last, earlier >>

\* A faulty variant of NewRandom: the calls share one generator, each drawing
\* from the state the call before left
SharedRandom(seed) == rng

\* random.Random(seed + 42): a generator of the call's own
NewRandom(seed) == (seed + 42) % SeedSpace

RngNext(state) == (state * 25173 + 13849) % SeedSpace

\* the generator's state after k draws
RECURSIVE RngAfter(_, _)
RngAfter(state, k) == IF k = 0 THEN state ELSE RngAfter(RngNext(state), k - 1)

\* the value of the k-th draw from state when it is randint(lo, hi)
Randint(state, k, lo, hi) == lo + ((RngAfter(state, k) \div 8) % (hi - lo + 1))

\* the value of the k-th draw when it is round(uniform(lo, hi), 2); lo and hi
\* and the result in hundredths
RoundedUniform(state, k, lo, hi) ==
    RoundDiv(lo * SeedSpace + (hi - lo) * RngAfter(state, k), SeedSpace)

Draw(name, value) == [name |-> name, value |-> value]

(***************************************************************************)
(* engine.py _build_estimated_impacts: the twelve draws in statement order *)
(***************************************************************************)
\* A faulty variant of ImpactDraws: tradein_min is drawn from the range of
\* refurb_min
ImpactDrawsCopiedRange(generator) ==
    << Draw("repair_min", Randint(generator, 1, 8, 12)),
       Draw("repair_max_offset", Randint(generator, 2, 4, 6)),
       Draw("refurb_min", Randint(generator, 3, 16, 22)),
       Draw("refurb_max_offset", Randint(generator, 4, 6, 9)),
       Draw("tradein_min", Randint(generator, 5, 16, 22)),
       Draw("tradein_max_offset", Randint(generator, 6, 8, 12)),
       Draw("repair_co2", RoundedUniform(generator, 7, 82, 93)),
       Draw("repair_ewaste", RoundedUniform(generator, 8, 80, 92)),
       Draw("refurb_co2", RoundedUniform(generator, 9, 69, 82)),
       Draw("refurb_ewaste", RoundedUniform(generator, 10, 62, 78)),
       Draw("tradein_co2", RoundedUniform(generator, 11, 45, 62)),
       Draw("tradein_ewaste", RoundedUniform(generator, 12, 35, 55)) >>

\* A faulty variant of ImpactDraws: each option's four draws are made
\* together, option by option
ImpactDrawsOptionByOption(generator) ==
    << Draw("repair_min", Randint(generator, 1, 8, 12)),
       Draw("repair_max_offset", Randint(generator, 2, 4, 6)),
       Draw("refurb_min", Randint(generator, 5, 16, 22)),
       Draw("refurb_max_offset", Randint(generator, 6, 6, 9)),
       Draw("tradein_min", Randint(generator, 9, 28, 35)),
       Draw("tradein_max_offset", Randint(generator, 10, 8, 12)),
       Draw("repair_co2", RoundedUniform(generator, 3, 82, 93)),
       Draw("repair_ewaste", RoundedUniform(generator, 4, 80, 92)),
       Draw("refurb_co2", RoundedUniform(generator, 7, 69, 82)),
       Draw("refurb_ewaste", RoundedUniform(generator, 8, 62, 78)),
       Draw("tradein_co2", RoundedUniform(generator, 11, 45, 62)),
       Draw("tradein_ewaste", RoundedUniform(generator, 12, 35, 55)) >>

ImpactDraws(generator) ==
    << Draw("repair_min", Randint(generator, 1, 8, 12)),
       Draw("repair_max_offset", Randint(generator, 2, 4, 6)),
       Draw("refurb_min", Randint(generator, 3, 16, 22)),
       Draw("refurb_max_offset", Randint(generator, 4, 6, 9)),
       Draw("tradein_min", Randint(generator, 5, 28, 35)),
       Draw("tradein_max_offset", Randint(generator, 6, 8, 12)),
       Draw("repair_co2", RoundedUniform(generator, 7, 82, 93)),
       Draw("repair_ewaste", RoundedUniform(generator, 8, 80, 92)),
       Draw("refurb_co2", RoundedUniform(generator, 9, 69, 82)),
       Draw("refurb_ewaste", RoundedUniform(generator, 10, 62, 78)),
       Draw("tradein_co2", RoundedUniform(generator, 11, 45, 62)),
       Draw("tradein_ewaste", RoundedUniform(generator, 12, 35, 55)) >>

Impact(d, min_at, cap, co2_at) ==
    [rul_gain_months_min |-> d[min_at].value,
     rul_gain_months_max |-> Min(cap, d[min_at].value + d[min_at + 1].value),
     co2_impact_score |-> d[co2_at].value,
     ewaste_reduction_score |-> d[co2_at + 1].value]

BuildEstimatedImpacts(generator) ==
    LET d == ImpactDraws(generator)
    IN  [repair_battery |-> Impact(d, 1, 16, 7),
         refurb_buy |-> Impact(d, 3, 30, 9),
         tradein_new |-> Impact(d, 5, 45, 11)]

(***************************************************************************)
(* engine.py assess_logic: winner, cards, rationale, response              *)
(***************************************************************************)
option_order == << "refurb_buy", "repair_battery", "tradein_new" >>

order_index(option_id) == (CHOOSE i \in 1..3 : option_order[i] = option_id) - 1

\* A faulty variant of KeyLess: the key is (overall_score, order_index), so a
\* tie goes to the option latest in option_order
KeyLessLatestFirst(scores, a, b) ==
    \/ scores[a].overall_score < scores[b].overall_score
    \/ /\ scores[a].overall_score = scores[b].overall_score
       /\ order_index(a) < order_index(b)

\* the sort key (overall_score, -order_index) compared as Python compares tuples
KeyLess(scores, a, b) ==
    \/ scores[a].overall_score < scores[b].overall_score
    \/ /\ scores[a].overall_score = scores[b].overall_score
       /\ -order_index(a) < -order_index(b)

\* max(scores.items(), key=...)[0]
RecommendedOption(scores) ==
    CHOOSE o \in OptionIds : \A other \in OptionIds \ {o} : KeyLess(scores, other, o)

\* A faulty variant of OpenIncentiveFlow: every purchase option opens the flow
OpenIncentiveFlowOnPurchase(option_id) == option_id \in {"refurb_buy", "tradein_new"}

OpenIncentiveFlow(option_id) == option_id = "tradein_new"

Card(option_id, category, scores, impacts, ui) ==
    [option_id |-> option_id,
     category |-> category,
     scores |-> scores[option_id],
     estimated_impacts |-> impacts[option_id],
     ui |-> ui,
     triggers |-> [open_incentive_flow |-> OpenIncentiveFlow(option_id)]]

\* The cards' fixed texts (title, tagline, why_this, assumptions, next_steps)
\* are literals of the code and are left out.
\* The texts that are kept are written in ASCII.
BuildRecommendations(p, scores, impacts, recommended_option_id) ==
    LET repair_badge ==
            IF SustainabilityPriority(p) = "high" THEN "Lowest CO2" ELSE "Lowest cost"
        refurb_badge ==
            IF recommended_option_id = "refurb_buy" THEN "Top choice" ELSE "Balanced"
    IN  << Card("repair_battery", "repair", scores, impacts,
                [cta_label |-> "Servis planla", badge |-> repair_badge,
                 icon |-> "battery-charging"]),
           Card("refurb_buy", "refurb", scores, impacts,
                [cta_label |-> "Refurb secenekleri", badge |-> refurb_badge,
                 icon |-> "refresh-ccw"]),
           Card("tradein_new", "trade_in", scores, impacts,
                [cta_label |-> "Tesvikleri gor", badge |-> "Max performance",
                 icon |-> "rocket"]) >>

\* The rationale text by its parts: the branch taken, the interpolated values
\* and whether the data-wipe clause is appended.
BuildRationale(recommended_option_id, p, rul_estimate) ==
    IF recommended_option_id = "repair_battery"
    THEN [branch |-> "repair_battery",
          values |-> << BatteryHealth(p), rul_estimate.rul_months_min,
                        rul_estimate.rul_months_max >>,
          wipe_clause |-> SustainabilityPriority(p) = "high" /\ ~PrefersFinancing(p)]
    ELSE IF recommended_option_id = "refurb_buy"
    THEN [branch |-> "refurb_buy", values |-> << >>, wipe_clause |-> FALSE]
    ELSE [branch |-> "tradein_new", values |-> << >>, wipe_clause |-> FALSE]

MODEL_VERSION == "mvp-contract-v1.0.0"

\* A faulty variant of InputsEcho: the echo is built from the values as the
\* scoring reads them, frame_drop_rate converted by float()
InputsEchoCoerced(p) ==
    [device |-> p.device,
     signals |-> [p.signals EXCEPT !.f["frame_drop_rate"] =
                    JFloat(FloatOf(p.signals.f["frame_drop_rate"]))],
     user_preferences |-> p.user_preferences]

InputsEcho(p) ==
    [device |-> p.device, signals |-> p.signals, user_preferences |-> p.user_preferences]

AssessResponse(p, seed, generator, timestamp) ==
    LET rul_estimate == ComputeRulAndConfidence(p)
        scores == ComputeOptionScores(p)
        impacts == BuildEstimatedImpacts(generator)
        recommended_option_id == RecommendedOption(scores)
    IN  [request_id |-> [prefix |-> "req_", seed |-> seed, suffix |-> ""],
         timestamp_utc |-> timestamp,
         model_version |-> MODEL_VERSION,
         inputs_echo |-> InputsEcho(p),
         rul_estimate |-> rul_estimate,
         decision_summary |->
            [recommended_primary_option_id |-> recommended_option_id,
             rationale |-> BuildRationale(recommended_option_id, p, rul_estimate),
             pareto_note |-> "pareto_note"],
         recommendations |-> BuildRecommendations(p, scores, impacts, recommended_option_id),
         disclaimer |-> [type |-> "advisory", text |-> "assess disclaimer"]]

AssessExpectedKeys ==
    {"request_id", "timestamp_utc", "model_version", "inputs_echo", "rul_estimate",
     "decision_summary", "recommendations", "disclaimer"}

(***************************************************************************)
(* The record of a call                                                    *)
(***************************************************************************)
\* events: the steps the call ran, in order; draws: the generator's draws, in
\* order; response: << >> when the call raised, else the one response.
CallRecord(call, selected, outcome, events, draws, generator, response) ==
    [call |-> call, selected |-> selected, exc |-> outcome.exc, msg |-> outcome.msg,
     events |-> events, draws |-> draws, rng |-> generator, response |-> response]

NoCall == CallRecord("none", JAbsent, Passed, << >>, << >>, 0, << >>)

AssertKeys(response, expected) ==
    IF DOMAIN response = expected THEN Passed
    ELSE Raise("AssertionError", "Top-level key set mismatch")

\* engine.py assess_logic(input_payload), called at time timestamp
AssessLogic(p, timestamp) ==
    LET valid == EngineValidate(p)
        seed == EngineStableSeed(p)
        generator == NewRandom(seed)
        response == AssessResponse(p, seed, generator, timestamp)
        asserted == AssertKeys(response, AssessExpectedKeys)
        events == << "validate", "seed", "random", "rul", "scores", "impacts", "winner",
                     "recommendations", "timestamp", "rationale", "response", "assert" >>
    IN  IF valid.exc # "none"
        THEN CallRecord("assess", JAbsent, valid, << "validate" >>, << >>, rng, << >>)
        ELSE IF asserted.exc # "none"
        THEN CallRecord("assess", JAbsent, asserted, events, ImpactDraws(generator),
                        RngAfter(generator, 12), << >>)
        ELSE CallRecord("assess", JAbsent, Passed, events, ImpactDraws(generator),
                        RngAfter(generator, 12), << response >>)

(***************************************************************************)
(* incentive.py incentive_logic                                            *)
(***************************************************************************)
\* A faulty variant of CheckSelected: only the type is checked, so the empty
\* string passes
CheckSelectedTypeOnly(selected_option_id) ==
    IF selected_option_id.kind # "str"
    THEN ValueError("selected_option_id must be a non-empty string")
    ELSE Passed

CheckSelected(selected_option_id) ==
    IF selected_option_id.kind # "str" \/ selected_option_id.s = ""
    THEN ValueError("selected_option_id must be a non-empty string")
    ELSE Passed

SustainBias(p) ==
    map_priority(SustainabilityPriority(p)) - map_priority(BudgetPriority(p))

WipeAnxiety(p) == ~PrefersFinancing(p) /\ SustainabilityPriority(p) = "high"

\* frame_drop_rate >= 0.15 in hundredths
HeavyUsage(p) ==
    \/ ChargeCycles(p) >= 850
    \/ FrameDrop(p) >= 15
    \/ RepairCount(p) >= 2

Planned(name, lo, hi) == [name |-> name, lo |-> lo, hi |-> hi]

\* The two base draws of the branch taken for a sustain_bias
BasePlan(sustain_bias) ==
    IF sustain_bias > 0
    THEN << Planned("carbon_base", 16000, 22000), Planned("cash_base", 7500, 12000) >>
    ELSE IF sustain_bias < 0
    THEN << Planned("cash_base", 13000, 17000), Planned("carbon_base", 7000, 12000) >>
    ELSE << Planned("cash_base", 10000, 14500), Planned("carbon_base", 11000, 17000) >>

\* A faulty variant of DrawPlan: the bumps are drawn before the hybrid bias
\* adjustments
DrawPlanBumpsFirst(p) ==
    BasePlan(SustainBias(p))
    \o << Planned("hybrid_cash", 8500, 12000), Planned("hybrid_carbon", 6000, 10000) >>
    \o (IF HeavyUsage(p)
        THEN << Planned("cash_heavy", 600, 1600), Planned("hybrid_cash_heavy", 300, 800) >>
        ELSE << >>)
    \o (IF SustainabilityPriority(p) = "high"
        THEN << Planned("carbon_sustain", 600, 1800), Planned("hybrid_carbon_sustain", 200, 800) >>
        ELSE << >>)
    \o (IF SustainBias(p) > 0
        THEN << Planned("hybrid_carbon_bias", 400, 1200), Planned("hybrid_cash_bias", 300, 900) >>
        ELSE IF SustainBias(p) < 0
        THEN << Planned("hybrid_cash_bias", 400, 1200), Planned("hybrid_carbon_bias", 300, 900) >>
        ELSE << >>)

\* The randint calls the call makes, in statement order
DrawPlan(p) ==
    BasePlan(SustainBias(p))
    \o << Planned("hybrid_cash", 8500, 12000), Planned("hybrid_carbon", 6000, 10000) >>
    \o (IF SustainBias(p) > 0
        THEN << Planned("hybrid_carbon_bias", 400, 1200), Planned("hybrid_cash_bias", 300, 900) >>
        ELSE IF SustainBias(p) < 0
        THEN << Planned("hybrid_cash_bias", 400, 1200), Planned("hybrid_carbon_bias", 300, 900) >>
        ELSE << >>)
    \o (IF HeavyUsage(p)
        THEN << Planned("cash_heavy", 600, 1600), Planned("hybrid_cash_heavy", 300, 800) >>
        ELSE << >>)
    \o (IF SustainabilityPriority(p) = "high"
        THEN << Planned("carbon_sustain", 600, 1800), Planned("hybrid_carbon_sustain", 200, 800) >>
        ELSE << >>)

IncentiveDraws(p, generator) ==
    [k \in 1..Len(DrawPlan(p)) |->
        Draw(DrawPlan(p)[k].name, Randint(generator, k, DrawPlan(p)[k].lo, DrawPlan(p)[k].hi))]

\* the value drawn under a name, 0 when the statement did not run
Drawn(draws, name) ==
    IF \E k \in 1..Len(draws) : draws[k].name = name
    THEN draws[CHOOSE k \in 1..Len(draws) : draws[k].name = name].value
    ELSE 0

BiasSign(p) == IF SustainBias(p) > 0 THEN 1 ELSE IF SustainBias(p) < 0 THEN -1 ELSE 0

\* A faulty variant of Amounts: the four final clamps are left out
AmountsUnclamped(p, d) ==
    LET hybrid_cash_floor ==
            Max(Drawn(d, "hybrid_cash") - BiasSign(p) * Drawn(d, "hybrid_cash_bias"), 7000)
        hybrid_carbon_floor ==
            Max(Drawn(d, "hybrid_carbon") + BiasSign(p) * Drawn(d, "hybrid_carbon_bias"), 5000)
    IN  [cash_amount |-> Drawn(d, "cash_base") + Drawn(d, "cash_heavy"),
         carbon_points_amount |-> Drawn(d, "carbon_base") + Drawn(d, "carbon_sustain"),
         hybrid_cash_amount |-> hybrid_cash_floor + Drawn(d, "hybrid_cash_heavy"),
         hybrid_carbon_points |-> hybrid_carbon_floor + Drawn(d, "hybrid_carbon_sustain")]

\* The four amounts after the adjustments and the final clamps
Amounts(p, d) ==
    LET hybrid_cash_floor ==
            Max(Drawn(d, "hybrid_cash") - BiasSign(p) * Drawn(d, "hybrid_cash_bias"), 7000)
        hybrid_carbon_floor ==
            Max(Drawn(d, "hybrid_carbon") + BiasSign(p) * Drawn(d, "hybrid_carbon_bias"), 5000)
    IN  [cash_amount |-> clamp(Drawn(d, "cash_base") + Drawn(d, "cash_heavy"), 7000, 18000),
         carbon_points_amount |->
            clamp(Drawn(d, "carbon_base") + Drawn(d, "carbon_sustain"), 6000, 24000),
         hybrid_cash_amount |->
            clamp(hybrid_cash_floor + Drawn(d, "hybrid_cash_heavy"), 7000, 13000),
         hybrid_carbon_points |->
            clamp(hybrid_carbon_floor + Drawn(d, "hybrid_carbon_sustain"), 5000, 12000)]

Package(package_id, cash, carbon, perk, badge) ==
    [package_id |-> package_id,
     value |-> [cash_amount_try |-> cash, carbon_points |-> carbon, perk |-> perk],
     ui |-> [badge |-> badge]]

\* None in a package value
None == -1

\* A faulty variant of Packages: the cash and carbon_points packages carry
\* both amounts, as the hybrid package does
PackagesAllPopulated(p, a) ==
    << Package("cash", a.cash_amount, a.carbon_points_amount,
               IF HeavyUsage(p) \/ PrefersFinancing(p) THEN "extra_data" ELSE "none",
               "Nakit avantaj"),
       Package("carbon_points", a.cash_amount, a.carbon_points_amount,
               IF SustainabilityPriority(p) = "high" THEN "tree" ELSE "donation",
               "Karbon etkisi"),
       Package("hybrid", a.hybrid_cash_amount, a.hybrid_carbon_points,
               IF SustainabilityPriority(p) = "high" THEN "donation" ELSE "none",
               "Dengeli teklif") >>

Packages(p, a) ==
    << Package("cash", a.cash_amount, None,
               IF HeavyUsage(p) \/ PrefersFinancing(p) THEN "extra_data" ELSE "none",
               "Nakit avantaj"),
       Package("carbon_points", None, a.carbon_points_amount,
               IF SustainabilityPriority(p) = "high" THEN "tree" ELSE "donation",
               "Karbon etkisi"),
       Package("hybrid", a.hybrid_cash_amount, a.hybrid_carbon_points,
               IF SustainabilityPriority(p) = "high" THEN "donation" ELSE "none",
               "Dengeli teklif") >>

\* accept_score in 1/5100000 before rounding, reported in hundredths
AcceptScore(p, a) ==
    RoundDiv(clamp(45 * 51000
                    + map_priority(BudgetPriority(p)) * 374000
                    + clamp(a.cash_amount, 0, 17000) * 54
                    + (IF PrefersFinancing(p) THEN 7 * 51000 ELSE 0)
                    + (IF HeavyUsage(p) THEN 4 * 51000 ELSE 0),
                   0, 100 * 51000),
             51000)

\* impact_score in 1/2200000 before rounding, reported in hundredths
ImpactScore(p, a) ==
    RoundDiv(clamp(40 * 22000
                    + map_priority(SustainabilityPriority(p)) * 220000
                    + clamp(a.carbon_points_amount, 0, 22000) * 22
                    + (IF SustainabilityPriority(p) = "high" THEN 5 * 22000 ELSE 0),
                   0, 100 * 22000),
             22000)

\* A faulty variant of Notes: the budget sentence is appended first
NotesBudgetFirst(p) ==
    LET triggered ==
            (IF BudgetPriority(p) = "high" THEN << "budget" >> ELSE << >>)
            \o (IF WipeAnxiety(p) THEN << "wipe_certificate" >> ELSE << >>)
            \o (IF HeavyUsage(p) THEN << "heavy_usage" >> ELSE << >>)
            \o (IF SustainabilityPriority(p) = "high" THEN << "carbon" >> ELSE << >>)
    IN  IF triggered = << >> THEN << "fallback" >> ELSE triggered

\* A faulty variant of Notes: no fallback sentence when nothing is triggered
NotesWithoutFallback(p) ==
    (IF WipeAnxiety(p) THEN << "wipe_certificate" >> ELSE << >>)
    \o (IF HeavyUsage(p) THEN << "heavy_usage" >> ELSE << >>)
    \o (IF SustainabilityPriority(p) = "high" THEN << "carbon" >> ELSE << >>)
    \o (IF BudgetPriority(p) = "high" THEN << "budget" >> ELSE << >>)

Notes(p) ==
    LET triggered ==
            (IF WipeAnxiety(p) THEN << "wipe_certificate" >> ELSE << >>)
            \o (IF HeavyUsage(p) THEN << "heavy_usage" >> ELSE << >>)
            \o (IF SustainabilityPriority(p) = "high" THEN << "carbon" >> ELSE << >>)
            \o (IF BudgetPriority(p) = "high" THEN << "budget" >> ELSE << >>)
    IN  IF triggered = << >> THEN << "fallback" >> ELSE triggered

IncentiveResponse(p, selected_option_id, seed, generator) ==
    LET a == Amounts(p, IncentiveDraws(p, generator))
    IN  [request_id |-> [prefix |-> "req_", seed |-> seed, suffix |-> "_INC"],
         model_version |-> MODEL_VERSION,
         selected_option_id |-> selected_option_id,
         packages |-> Packages(p, a),
         accept_score |-> AcceptScore(p, a),
         impact_score |-> ImpactScore(p, a),
         notes |-> Notes(p),
         disclaimer |-> [type |-> "advisory", text |-> "incentive disclaimer"]]

IncentiveExpectedKeys ==
    {"request_id", "model_version", "selected_option_id", "packages", "accept_score",
     "impact_score", "notes", "disclaimer"}

\* The assertions at the end of incentive_logic, in order
IncentiveAsserts(response) ==
    FirstRaise(
        << AssertKeys(response, IncentiveExpectedKeys),
           IF {response.packages[k].package_id : k \in 1..Len(response.packages)}
                = {"cash", "carbon_points", "hybrid"}
           THEN Passed ELSE Raise("AssertionError", "Invalid package ids"),
           IF 0 <= response.accept_score /\ response.accept_score <= 100
           THEN Passed ELSE Raise("AssertionError", "accept_score out of range"),
           IF 0 <= response.impact_score /\ response.impact_score <= 100
           THEN Passed ELSE Raise("AssertionError", "impact_score out of range"),
           IF Len(response.notes) >= 1
           THEN Passed ELSE Raise("AssertionError", "notes must contain at least one item") >>)

\* incentive.py incentive_logic(input_payload, selected_option_id)
IncentiveLogic(p, selected_option_id) ==
    LET valid == IncentiveValidate(p)
        selected == CheckSelected(selected_option_id)
        seed == IncentiveStableSeed(p, selected_option_id)
        generator == NewRandom(seed)
        draws == IncentiveDraws(p, generator)
        response == IncentiveResponse(p, selected_option_id, seed, generator)
        asserted == IncentiveAsserts(response)
        events == << "validate", "selected", "signals", "seed", "random", "draws",
                     "clamps", "packages", "scores", "notes", "response", "assert" >>
    IN  IF valid.exc # "none"
        THEN CallRecord("incentive", selected_option_id, valid, << "validate" >>,
                        << >>, rng, << >>)
        ELSE IF selected.exc # "none"
        THEN CallRecord("incentive", selected_option_id, selected,
                        << "validate", "selected" >>, << >>, rng, << >>)
        ELSE IF asserted.exc # "none"
        THEN CallRecord("incentive", selected_option_id, asserted, events, draws,
                        RngAfter(generator, Len(draws)), << >>)
        ELSE CallRecord("incentive", selected_option_id, Passed, events, draws,
                        RngAfter(generator, Len(draws)), << response >>)

(***************************************************************************)
(* The inputs.  A payload is one of the two scenarios of engine.py with up *)
(* to two of its places (a field, a whole section) replaced by another     *)
(* JSON value, or is not a dict at all.                                    *)
(***************************************************************************)
MaxAgeMonths == 80
MaxChargeCycles == 1600
MaxRepairCount == 5
MaxClock == 1

Payload(device, signals, user_preferences) ==
    [kind |-> "object", device |-> device, signals |-> signals,
     user_preferences |-> user_preferences]

Device(brand, model, age_months) ==
    Section([k \in DeviceKeys |->
        CASE k = "brand" -> JStr(brand)
          [] k = "model" -> JStr(model)
          [] OTHER -> JInt(age_months)])

Signals(battery_health_percent, charge_cycles, frame_drop_rate, repair_history_count) ==
    Section([k \in SignalKeys |->
        CASE k = "battery_health_percent" -> JInt(battery_health_percent)
          [] k = "charge_cycles" -> JInt(charge_cycles)
          [] k = "frame_drop_rate" -> JFloat(frame_drop_rate)
          [] OTHER -> JInt(repair_history_count)])

Preferences(budget, sustainability, performance, financing) ==
    Section([k \in PrefKeys |->
        CASE k = "budget_priority" -> JStr(budget)
          [] k = "sustainability_priority" -> JStr(sustainability)
          [] k = "performance_priority" -> JStr(performance)
          [] OTHER -> JBool(financing)])

scenario_a_input ==
    Payload(Device("Samsung", "Galaxy S22", 31),
            Signals(76, 702, 9, 1),
            Preferences("medium", "high", "medium", FALSE))

scenario_b_input ==
    Payload(Device("Apple", "iPhone 13", 36),
            Signals(69, 982, 19, 2),
            Preferences("high", "medium", "medium", TRUE))

\* A device a few months old, bought for performance
lightly_used_input ==
    Payload(Device("Apple", "iPhone 14", 3),
            Signals(97, 20, 1, 0),
            Preferences("low", "low", "high", TRUE))

Scenarios == {scenario_a_input, scenario_b_input, lightly_used_input}

\* A payload that is not a dict
NotADict(kind) ==
    [kind |-> kind, device |-> NonDict("absent", "device"),
     signals |-> NonDict("absent", "signals"),
     user_preferences |-> NonDict("absent", "user_preferences")]

\* One value of every JSON kind that is wrong for every field
WrongKinds == {JAbsent, JNull, JList, JObject}

FieldValues(key) ==
    WrongKinds \cup
    (CASE key \in {"brand", "model"} ->
            {JBool(TRUE), JInt(5), JFloat(50), JStr(""), JStr("Apple")}
       [] key = "age_months" ->
            {JBool(TRUE), JInt(-1), JInt(0), JInt(18), JInt(MaxAgeMonths), JFloat(3100),
             JStr("31")}
       [] key = "battery_health_percent" ->
            {JBool(TRUE), JInt(-1), JInt(0), JInt(100), JInt(101), JFloat(7600), JStr("76")}
       [] key = "charge_cycles" ->
            {JBool(TRUE), JInt(-1), JInt(0), JInt(MaxChargeCycles), JFloat(70200), JStr("702")}
       [] key = "frame_drop_rate" ->
            {JBool(TRUE), JInt(0), JInt(1), JInt(2), JInt(-1), JFloat(0), JFloat(15),
             JFloat(100), JFloat(150), JFloat(-1), JStr("0.09")}
       [] key = "repair_history_count" ->
            {JBool(TRUE), JInt(-1), JInt(0), JInt(MaxRepairCount), JFloat(100), JStr("1")}
       [] key = "prefers_financing" ->
            {JBool(TRUE), JBool(FALSE), JInt(0), JInt(1), JFloat(100), JStr("true")}
       [] OTHER ->
            {JBool(TRUE), JInt(2), JFloat(200), JStr(""), JStr("urgent"), JStr("low"),
             JStr("medium"), JStr("high")})

\* The places of a payload: its fields, and (key "") its sections
Places ==
    {[section |-> "device", key |-> k] : k \in DeviceKeys \cup {""}}
    \cup {[section |-> "signals", key |-> k] : k \in SignalKeys \cup {""}}
    \cup {[section |-> "user_preferences", key |-> k] : k \in PrefKeys \cup {""}}

SectionValues == WrongKinds \cup {JBool(TRUE), JInt(5), JFloat(50), JStr("x")}

\* An edit puts a value at a place; the edit at no place changes nothing
NoEdit == [section |-> "none", key |-> "", value |-> JAbsent]

Edits ==
    {NoEdit} \cup
    UNION {{[section |-> pl.section, key |-> pl.key, value |-> v] :
                v \in IF pl.key = "" THEN SectionValues ELSE FieldValues(pl.key)} :
           pl \in Places}

\* A section replaced by a JSON object is an empty dict
Apply(p, e) ==
    IF e.section = "none" THEN p
    ELSE IF e.key = ""
    THEN [p EXCEPT ![e.section] =
            IF e.value.kind = "object"
            THEN Section([k \in KeysOf(e.section) |-> JAbsent])
            ELSE NonDict(e.value.kind, e.section)]
    ELSE IF p[e.section].kind # "object" THEN p
    ELSE [p EXCEPT ![e.section].f[e.key] = e.value]

Payloads ==
    {Apply(Apply(scenario_a_input, e1), e2) : e1 \in Edits, e2 \in Edits}
    \cup {Apply(base, e) : base \in Scenarios, e \in Edits}
    \cup {NotADict(kind) : kind \in {"null", "bool", "int", "float", "str", "list"}}

\* The payloads of the caller that compares calls
ComparePayloads ==
    {Apply(base, e) : base \in Scenarios, e \in Edits}

\* The selected_option_id arguments a caller passes
SelectedIds == {JStr("tradein_new"), JStr("refurb_buy"), JStr(""), JNull}

(***************************************************************************)
(* The state machine: a caller holding one payload calls the two           *)
(* pipelines, in any order and any number of times, and may keep what a    *)
(* call returned to compare it with a later one.                           *)
(***************************************************************************)
Init ==
    /\ payload \in Payloads
    /\ rng = 0
    /\ last = NoCall
    /\ earlier = NoCall

\* assess_logic(payload); datetime.now() is an input of the call: the wall
\* clock, in seconds, which nothing in the program sets
CallAssess ==
    \E timestamp \in 0..MaxClock :
        /\ last' = AssessLogic(payload, timestamp)
        /\ rng' = last'.rng
        /\ UNCHANGED << payload, earlier >>

\* incentive_logic(payload, selected_option_id)
CallIncentive ==
    \E selected_option_id \in SelectedIds :
        /\ last' = IncentiveLogic(payload, selected_option_id)
        /\ rng' = last'.rng
        /\ UNCHANGED << payload, earlier >>

\* The caller keeps the response it just got
Remember ==
    /\ last.response # << >>
    /\ earlier # last
    /\ earlier' = last
    /\ UNCHANGED << payload, rng, last >>

Next == CallAssess \/ CallIncentive

Spec == Init /\ [][Next]_vars

\* The same caller comparing calls: it keeps a response and calls again
InitCompare ==
    /\ payload \in ComparePayloads
    /\ rng = 0
    /\ last = NoCall
    /\ earlier = NoCall

NextCompare == CallAssess \/ CallIncentive \/ Remember

SpecCompare == InitCompare /\ [][NextCompare]_vars

(***************************************************************************)
(* The documented input contract, stated from the field table of the input *)
(* payload: what a valid payload is, and the order in which the fields are *)
(* documented to be checked.                                               *)
(***************************************************************************)
DocumentedOrder ==
    << "device.brand", "device.model", "device.age_months",
       "signals.battery_health_percent", "signals.charge_cycles",
       "signals.frame_drop_rate", "signals.repair_history_count",
       "user_preferences.budget_priority", "user_preferences.sustainability_priority",
       "user_preferences.performance_priority", "user_preferences.prefers_financing" >>

\* The fields the incentive validator is documented to check, in the same order
IncentiveOrder ==
    << "signals.charge_cycles", "signals.frame_drop_rate",
       "signals.repair_history_count", "user_preferences.budget_priority",
       "user_preferences.sustainability_priority",
       "user_preferences.performance_priority", "user_preferences.prefers_financing" >>

HasSections(p) == p.kind = "object" /\ \A k \in SectionKeys : p[k].kind # "absent"

IsNonNegInteger(v) == v.kind = "int" /\ v.n >= 0
IsNonEmptyString(v) == v.kind = "str" /\ v.s # ""
IsPriority(v) == v.kind = "str" /\ v.s \in {"low", "medium", "high"}

\* The field has the documented type and range.  A boolean is not an integer
\* and not a number: the JSON kinds are distinct.
DocumentedOk(p, field) ==
    CASE field = "device.brand" -> IsNonEmptyString(p.device.f["brand"])
      [] field = "device.model" -> IsNonEmptyString(p.device.f["model"])
      [] field = "device.age_months" -> IsNonNegInteger(p.device.f["age_months"])
      [] field = "signals.battery_health_percent" ->
            /\ IsNonNegInteger(p.signals.f["battery_health_percent"])
            /\ p.signals.f["battery_health_percent"].n <= 100
      [] field = "signals.charge_cycles" -> IsNonNegInteger(p.signals.f["charge_cycles"])
      [] field = "signals.frame_drop_rate" ->
            /\ p.signals.f["frame_drop_rate"].kind \in {"int", "float"}
            /\ 0 <= FloatOf(p.signals.f["frame_drop_rate"])
            /\ FloatOf(p.signals.f["frame_drop_rate"]) <= 100
      [] field = "signals.repair_history_count" ->
            IsNonNegInteger(p.signals.f["repair_history_count"])
      [] field = "user_preferences.budget_priority" ->
            IsPriority(p.user_preferences.f["budget_priority"])
      [] field = "user_preferences.sustainability_priority" ->
            IsPriority(p.user_preferences.f["sustainability_priority"])
      [] field = "user_preferences.performance_priority" ->
            IsPriority(p.user_preferences.f["performance_priority"])
      [] OTHER -> p.user_preferences.f["prefers_financing"].kind = "bool"

Offending(p, order) == {i \in 1..Len(order) : ~DocumentedOk(p, order[i])}

DocumentedValidFor(p, order) == HasSections(p) /\ Offending(p, order) = {}

DocumentedValid(p) == DocumentedValidFor(p, DocumentedOrder)

\* The first offending field in the order; the payload itself when a
\* top-level key is missing
FirstOffending(p, order) ==
    IF ~HasSections(p) THEN "input_payload"
    ELSE IF Offending(p, order) = {} THEN "none"
    ELSE order[CHOOSE i \in Offending(p, order) : \A j \in Offending(p, order) : i <= j]

\* The message starts with the path of the field
MessageNames(msg, field) ==
    msg \in {field \o rest :
                rest \in {" must include device, signals, user_preferences",
                          " must be a dict", " must be non-empty string",
                          " must be int >= 0", " must be int", " must be in [0, 100]",
                          " must be float", " must be in [0, 1]",
                          " must be low|medium|high", " must be bool"}}

\* How a call ended
ValidatorReturned(c) == c.events # << "validate" >>
Responded(c, call) == c.call = call /\ c.response # << >>
RejectedByValidation(c) ==
    /\ c.exc = "ValueError"
    /\ c.events = << "validate" >>
    /\ c.draws = << >>
    /\ c.response = << >>

\* The card of an option in a response
CardOf(response, option_id) ==
    response.recommendations[
        CHOOSE k \in 1..Len(response.recommendations) :
            response.recommendations[k].option_id = option_id]

(***************************************************************************)
(* C1.  The assess validator returns normally exactly when the payload has *)
(* the three sections and every documented field has its documented type   *)
(* and range, over all JSON kinds of value.                                *)
(* Refuted by the code: isinstance(x, int) holds of a boolean, so true     *)
(* passes where an integer or a number is documented.                      *)
(***************************************************************************)
ValidatorAcceptsExactlyDocumented ==
    last.call = "assess" => (ValidatorReturned(last) <=> DocumentedValid(payload))

\* assess answered a payload whose age_months is a boolean
BooleanAgeAccepted ==
    /\ Responded(last, "assess")
    /\ payload.device.f["age_months"].kind = "bool"

(***************************************************************************)
(* C2.  Every payload that is not valid makes assess_logic and             *)
(* incentive_logic (for the fields it checks) fail with the one validation *)
(* error, before the seed, any score and any draw, with no response; no    *)
(* other failure is reachable.                                             *)
(* Refuted by the code: a section that is not a dict raises AttributeError *)
(* at its first .get, a list or dict priority raises TypeError.            *)
(***************************************************************************)
InvalidPayloadRejectedCleanly ==
    /\ last.exc \in {"none", "ValueError"}
    /\ (last.call = "assess" /\ ~DocumentedValid(payload))
            => RejectedByValidation(last)
    /\ (last.call = "incentive" /\ ~DocumentedValidFor(payload, IncentiveOrder))
            => RejectedByValidation(last)

\* assess crashed on a payload whose three sections are present
CrashOnNonDictSection ==
    /\ last.call = "assess"
    /\ HasSections(payload)
    /\ last.exc = "AttributeError"

(***************************************************************************)
(* C3.  When several fields are invalid, the validation error names the    *)
(* first offending field in the documented order; the incentive validator  *)
(* does so over the fields it checks.                                      *)
(* Refuted by the code through C1: a boolean in an integer field is passed *)
(* over and a later field is named.                                        *)
(***************************************************************************)
FirstOffendingFieldNamed ==
    /\ (last.call = "assess" /\ last.exc = "ValueError")
            => MessageNames(last.msg, FirstOffending(payload, DocumentedOrder))
    /\ (last.call = "incentive" /\ last.exc = "ValueError"
            /\ ~ValidatorReturned(last))
            => MessageNames(last.msg, FirstOffending(payload, IncentiveOrder))

\* assess named a later field although age_months, a boolean, offends first
LaterFieldNamed ==
    /\ last.call = "assess"
    /\ last.exc = "ValueError"
    /\ Cardinality(Offending(payload, DocumentedOrder)) >= 2
    /\ FirstOffending(payload, DocumentedOrder) = "device.age_months"
    /\ ~MessageNames(last.msg, "device.age_months")

(***************************************************************************)
(* C4.  Determinism.  Two answered calls of the same pipeline with the     *)
(* same payload and option id made the same draws and returned the same    *)
(* response, but for timestamp_utc of assess; and the generator of a call  *)
(* starts from the seed of its request_id plus 42, whatever was called     *)
(* before.                                                                 *)
(***************************************************************************)
CallsAreDeterministic ==
    /\ (last.response # << >>) =>
            last.rng = RngAfter((last.response[1].request_id.seed + 42) % SeedSpace,
                                Len(last.draws))
    /\ (/\ earlier.response # << >>
        /\ last.response # << >>
        /\ earlier.call = last.call
        /\ earlier.selected = last.selected) =>
            /\ earlier.draws = last.draws
            /\ IF last.call = "assess"
               THEN [earlier.response[1] EXCEPT !.timestamp_utc = 0]
                        = [last.response[1] EXCEPT !.timestamp_utc = 0]
               ELSE earlier.response = last.response

\* two answered assess calls of one payload, made at different times
AssessedTwiceAtDifferentTimes ==
    /\ Responded(earlier, "assess")
    /\ Responded(last, "assess")
    /\ earlier.response[1].timestamp_utc # last.response[1].timestamp_utc
    /\ earlier.response[1].request_id = last.response[1].request_id

(***************************************************************************)
(* C5.  The rul_estimate of an assess response has                         *)
(* 1 <= rul_months_min <= rul_months_max <= 30 and                         *)
(* 0.35 <= confidence_score <= 0.90 (hundredths here).                     *)
(***************************************************************************)
RulEstimateInRange ==
    Responded(last, "assess") =>
        LET estimate == last.response[1].rul_estimate
        IN  /\ 1 <= estimate.rul_months_min
            /\ estimate.rul_months_min <= estimate.rul_months_max
            /\ estimate.rul_months_max <= 30
            /\ 35 <= estimate.confidence_score
            /\ estimate.confidence_score <= 90

\* a worn device: rul_months_min is 1 and the confidence is held at 0.35 by the
\* clamp
RulEstimateAtLowerLimits ==
    /\ Responded(last, "assess")
    /\ last.response[1].rul_estimate.rul_months_min = 1
    /\ last.response[1].rul_estimate.confidence_score = 35
    /\ 12000 - Risk(payload) < 35 * 120

(***************************************************************************)
(* C6.  Once the input passed validation no response assertion fails: the  *)
(* call of assess answers with exactly its eight top-level keys, a call of *)
(* incentive that answers has exactly its eight keys, the package ids      *)
(* cash, carbon_points, hybrid, both scores in [0,1] and at least one      *)
(* note, and the only other end of incentive is the rejection of the       *)
(* option id.                                                              *)
(***************************************************************************)
ResponseAssertionsHold ==
    /\ last.exc # "AssertionError"
    /\ (last.call = "assess" /\ ValidatorReturned(last)) =>
            /\ last.response # << >>
            /\ DOMAIN last.response[1] =
                    {"request_id", "timestamp_utc", "model_version", "inputs_echo",
                     "rul_estimate", "decision_summary", "recommendations", "disclaimer"}
    /\ (last.call = "incentive" /\ ValidatorReturned(last) /\ last.response = << >>) =>
            last.msg = "selected_option_id must be a non-empty string"
    /\ Responded(last, "incentive") =>
            LET response == last.response[1]
            IN  /\ DOMAIN response =
                        {"request_id", "model_version", "selected_option_id", "packages",
                         "accept_score", "impact_score", "notes", "disclaimer"}
                /\ Len(response.packages) = 3
                /\ {response.packages[k].package_id : k \in 1..3}
                        = {"cash", "carbon_points", "hybrid"}
                /\ 0 <= response.accept_score /\ response.accept_score <= 100
                /\ 0 <= response.impact_score /\ response.impact_score <= 100
                /\ Len(response.notes) >= 1

\* an incentive response whose only note is the fallback sentence
OnlyFallbackNote ==
    /\ Responded(last, "incentive")
    /\ last.response[1].notes = << "fallback" >>

(***************************************************************************)
(* C7.  The recommended option has the maximal reported overall_score, and *)
(* among options of equal overall_score the one earliest in                *)
(* [refurb_buy, repair_battery, tradein_new].                              *)
(***************************************************************************)
WinnerIsMaxWithListTieBreak ==
    Responded(last, "assess") =>
        LET response == last.response[1]
            winner == response.decision_summary.recommended_primary_option_id
            overall(o) == CardOf(response, o).scores.overall_score
            place(o) ==
                CHOOSE i \in 1..3 : << "refurb_buy", "repair_battery", "tradein_new" >>[i] = o
        IN  /\ winner \in {"repair_battery", "refurb_buy", "tradein_new"}
            /\ \A o \in {"repair_battery", "refurb_buy", "tradein_new"} \ {winner} :
                    \/ overall(o) < overall(winner)
                    \/ overall(o) = overall(winner) /\ place(winner) < place(o)

\* refurb_buy and repair_battery share the top overall_score
TopScoreTied ==
    /\ Responded(last, "assess")
    /\ last.response[1].decision_summary.recommended_primary_option_id = "refurb_buy"
    /\ CardOf(last.response[1], "repair_battery").scores.overall_score
            = CardOf(last.response[1], "refurb_buy").scores.overall_score
    /\ CardOf(last.response[1], "tradein_new").scores.overall_score
            < CardOf(last.response[1], "refurb_buy").scores.overall_score

(***************************************************************************)
(* C8.  The weights and the unrounded component values of an option, for   *)
(* the statements about overall_score.                                     *)
(***************************************************************************)
PriorityWeight == [low |-> 1, medium |-> 2, high |-> 3]

WeightOf(p) ==
    << PriorityWeight[BudgetPriority(p)], PriorityWeight[SustainabilityPriority(p)],
       PriorityWeight[PerformancePriority(p)] >>

WeightSum(p) == WeightOf(p)[1] + WeightOf(p)[2] + WeightOf(p)[3]

\* cost, sustainability, performance before rounding, in 1/360000
Unrounded(p, option_id) ==
    CASE option_id = "repair_battery" -> << RepairCost(p), RepairSust(p), RepairPerf(p) >>
      [] option_id = "refurb_buy" -> << RefurbCost(p), RefurbSust(p), RefurbPerf(p) >>
      [] OTHER -> << TradeinCost(p), TradeinSust(p), TradeinPerf(p) >>

Reported(scores) ==
    << scores.cost_score, scores.sustainability_score, scores.performance_score >>

Weighted(p, x) == x[1] * WeightOf(p)[1] + x[2] * WeightOf(p)[2] + x[3] * WeightOf(p)[3]

(***************************************************************************)
(* C8 as the code has it.  Each option's overall_score is the convex       *)
(* combination of its unrounded cost, sustainability and performance with  *)
(* the weights 1, 2, 3 over their sum, rounded to two decimals; it lies in *)
(* [0,1] and between the smallest and the largest of the option's three    *)
(* reported scores.                                                        *)
(***************************************************************************)
OverallIsRoundedConvexCombination ==
    Responded(last, "assess") =>
        \A o \in {"repair_battery", "refurb_buy", "tradein_new"} :
            LET scores == CardOf(last.response[1], o).scores
                r == Reported(scores)
            IN  /\ scores.overall_score
                        = RoundDiv(Weighted(payload, Unrounded(payload, o)),
                                   3600 * WeightSum(payload))
                /\ 0 <= scores.overall_score /\ scores.overall_score <= 100
                /\ \E k \in 1..3 : r[k] <= scores.overall_score
                /\ \E k \in 1..3 : scores.overall_score <= r[k]

\* C8 as stated: overall_score is the convex combination itself, of the
\* unrounded or of the reported component scores
OverallIsExactConvexCombination ==
    (Responded(last, "assess") /\ DocumentedValid(payload)) =>
        \A o \in {"repair_battery", "refurb_buy", "tradein_new"} :
            LET scores == CardOf(last.response[1], o).scores
            IN  \/ scores.overall_score * 3600 * WeightSum(payload)
                        = Weighted(payload, Unrounded(payload, o))
                \/ scores.overall_score * WeightSum(payload)
                        = Weighted(payload, Reported(scores))

\* a valid payload with unequal weights, and the rounding moved refurb_buy's
\* overall_score
OverallMovedByRounding ==
    /\ Responded(last, "assess")
    /\ DocumentedValid(payload)
    /\ Cardinality({WeightOf(payload)[k] : k \in 1..3}) > 1
    /\ CardOf(last.response[1], "refurb_buy").scores.overall_score
            * 3600 * WeightSum(payload)
         # Weighted(payload, Unrounded(payload, "refurb_buy"))

(***************************************************************************)
(* C9.  An assess response has exactly three cards, one for each of        *)
(* repair_battery, refurb_buy, tradein_new; open_incentive_flow is true on *)
(* the tradein_new card and false on the other two, whichever option is    *)
(* recommended.                                                            *)
(***************************************************************************)
ThreeCardsOnlyTradeinOpensFlow ==
    Responded(last, "assess") =>
        LET cards == last.response[1].recommendations
        IN  /\ Len(cards) = 3
            /\ {cards[k].option_id : k \in 1..3}
                    = {"repair_battery", "refurb_buy", "tradein_new"}
            /\ \A k \in 1..3 :
                    cards[k].triggers.open_incentive_flow
                        = (cards[k].option_id = "tradein_new")

\* a response that recommends refurb_buy, whose card does not open the flow
RefurbRecommendedFlowClosed ==
    /\ Responded(last, "assess")
    /\ last.response[1].decision_summary.recommended_primary_option_id = "refurb_buy"
    /\ ~CardOf(last.response[1], "refurb_buy").triggers.open_incentive_flow
    /\ CardOf(last.response[1], "tradein_new").triggers.open_incentive_flow

(***************************************************************************)
(* C10.  No call changes the payload, whether it answers or rejects, and   *)
(* the inputs_echo of an assess response has exactly the keys device,      *)
(* signals, user_preferences, each with the value the payload has.         *)
(***************************************************************************)
PayloadUntouchedAndEchoed ==
    [][/\ payload' = payload
       /\ Responded(last', "assess") =>
            LET echo == last'.response[1].inputs_echo
            IN  /\ DOMAIN echo = {"device", "signals", "user_preferences"}
                /\ echo.device = payload.device
                /\ echo.signals = payload.signals
                /\ echo.user_preferences = payload.user_preferences]_vars

\* an answered assess call whose payload gives frame_drop_rate as an integer
IntegerFrameRateEchoed ==
    /\ Responded(last, "assess")
    /\ payload.signals.f["frame_drop_rate"].kind = "int"
    /\ last.response[1].inputs_echo.signals.f["frame_drop_rate"]
            = payload.signals.f["frame_drop_rate"]

(***************************************************************************)
(* C11.  The packages of an incentive response are cash, carbon_points,    *)
(* hybrid in this order; the cash package has a cash amount and a null     *)
(* carbon_points, the carbon_points package a null cash amount and a       *)
(* carbon_points amount, the hybrid package both; every perk is one of     *)
(* donation, tree, extra_data, none.                                       *)
(***************************************************************************)
PackagesShapedByKind ==
    Responded(last, "incentive") =>
        LET packages == last.response[1].packages
            populated(x) == x # None /\ x \in Nat
        IN  /\ Len(packages) = 3
            /\ << packages[1].package_id, packages[2].package_id, packages[3].package_id >>
                    = << "cash", "carbon_points", "hybrid" >>
            /\ populated(packages[1].value.cash_amount_try)
            /\ packages[1].value.carbon_points = None
            /\ packages[2].value.cash_amount_try = None
            /\ populated(packages[2].value.carbon_points)
            /\ populated(packages[3].value.cash_amount_try)
            /\ populated(packages[3].value.carbon_points)
            /\ \A k \in 1..3 :
                    packages[k].value.perk \in {"donation", "tree", "extra_data", "none"}

\* a response whose three perks are extra_data, tree and donation
ThreePerksGranted ==
    /\ Responded(last, "incentive")
    /\ last.response[1].packages[1].value.perk = "extra_data"
    /\ last.response[1].packages[2].value.perk = "tree"
    /\ last.response[1].packages[3].value.perk = "donation"

(***************************************************************************)
(* C12.  The pareto_note holds of the values of every assess response:     *)
(* repair_battery has the highest cost_score, tradein_new the highest      *)
(* performance_score, and tradein_new's rul_gain_months_min and            *)
(* rul_gain_months_max are greater than those of the other two options.    *)
(***************************************************************************)
ParetoNoteHolds ==
    Responded(last, "assess") =>
        LET repair == CardOf(last.response[1], "repair_battery")
            refurb == CardOf(last.response[1], "refurb_buy")
            tradein == CardOf(last.response[1], "tradein_new")
        IN  \A other \in {repair, refurb} :
                /\ other = repair \/ repair.scores.cost_score > other.scores.cost_score
                /\ repair.scores.cost_score > tradein.scores.cost_score
                /\ tradein.scores.performance_score > other.scores.performance_score
                /\ tradein.estimated_impacts.rul_gain_months_min
                        > other.estimated_impacts.rul_gain_months_min
                /\ tradein.estimated_impacts.rul_gain_months_max
                        > other.estimated_impacts.rul_gain_months_max

\* the margin at its narrowest: refurb_buy gains up to its cap of 30 months,
\* tradein_new from 28
NarrowRulGainMargin ==
    /\ Responded(last, "assess")
    /\ CardOf(last.response[1], "refurb_buy").estimated_impacts.rul_gain_months_max = 30
    /\ CardOf(last.response[1], "tradein_new").estimated_impacts.rul_gain_months_min = 28

(***************************************************************************)
(* C13.  In every assess response the confidence label agrees with the     *)
(* confidence_score of the same response: high from 0.80, medium-high from *)
(* 0.60 to below 0.80, medium below 0.60.                                  *)
(* Refuted by the code: the label is taken from the score before it is     *)
(* rounded to two decimals.                                                *)
(***************************************************************************)
LabelAgreesWithReportedScore ==
    (Responded(last, "assess") /\ DocumentedValid(payload)) =>
        LET estimate == last.response[1].rul_estimate
        IN  estimate.confidence =
                IF estimate.confidence_score >= 80 THEN "high"
                ELSE IF estimate.confidence_score >= 60 THEN "medium-high"
                ELSE "medium"

\* a valid payload answered with confidence_score 0.60 and label medium
ScoreRoundedAcrossLabel ==
    /\ Responded(last, "assess")
    /\ DocumentedValid(payload)
    /\ last.response[1].rul_estimate.confidence_score = 60
    /\ last.response[1].rul_estimate.confidence = "medium"

(***************************************************************************)
(* C14.  The base cash amount and the base carbon-points amount are drawn  *)
(* from three pairwise disjoint ranges, one for each sign of sustain_bias, *)
(* so that a drawn base amount lies in the range of its own branch only.   *)
(* Refuted by the code: the ranges of sustain_bias = 0 overlap those of    *)
(* both other branches.                                                    *)
(***************************************************************************)
BaseAmountDeterminesBranch ==
    Responded(last, "incentive") =>
        \A b \in {-1, 0, 1} \ {BiasSign(payload)} : \A k \in 1..2 :
            LET own == CHOOSE j \in 1..2 :
                            BasePlan(BiasSign(payload))[j].name = BasePlan(b)[k].name
            IN  /\ \/ BasePlan(BiasSign(payload))[own].hi < BasePlan(b)[k].lo
                   \/ BasePlan(b)[k].hi < BasePlan(BiasSign(payload))[own].lo
                /\ ~(/\ BasePlan(b)[k].lo <= Drawn(last.draws, BasePlan(b)[k].name)
                     /\ Drawn(last.draws, BasePlan(b)[k].name) <= BasePlan(b)[k].hi)

\* a call with sustain_bias = 0 whose base cash amount is one that a call with
\* sustain_bias > 0 can draw as well
BaseCashInTwoRanges ==
    /\ Responded(last, "incentive")
    /\ SustainBias(payload) = 0
    /\ Drawn(last.draws, "cash_base") >= 10000
    /\ Drawn(last.draws, "cash_base") <= 12000

(***************************************************************************)
(* Draws other than the generator's.  Each final amount is monotone in     *)
(* each draw it is made of and is made of at most one base draw, one bias  *)
(* adjustment and one bump, so its extremes over all draws within their    *)
(* ranges are met where each of the three is at an end of its range.       *)
(***************************************************************************)
DrawGroup(name) ==
    IF name \in {"cash_base", "carbon_base", "hybrid_cash", "hybrid_carbon"} THEN "base"
    ELSE IF name \in {"hybrid_cash_bias", "hybrid_carbon_bias"} THEN "bias"
    ELSE "bump"

ExtremeDraws(p, choice) ==
    [k \in 1..Len(DrawPlan(p)) |->
        Draw(DrawPlan(p)[k].name,
             IF choice[DrawGroup(DrawPlan(p)[k].name)] = "lo"
             THEN DrawPlan(p)[k].lo ELSE DrawPlan(p)[k].hi)]

(***************************************************************************)
(* C15.  The four final amounts of an incentive response are integers in   *)
(* their ranges: cash 7000..18000, carbon points 6000..24000, hybrid cash  *)
(* 7000..13000, hybrid carbon points 5000..12000; and so they are for the  *)
(* payload of the call whatever the draws, within their ranges, had been.  *)
(***************************************************************************)
AmountsWithinRanges ==
    Responded(last, "incentive") =>
        LET packages == last.response[1].packages
            within(x, lo, hi) == x \in Int /\ lo <= x /\ x <= hi
        IN  /\ within(packages[1].value.cash_amount_try, 7000, 18000)
            /\ within(packages[2].value.carbon_points, 6000, 24000)
            /\ within(packages[3].value.cash_amount_try, 7000, 13000)
            /\ within(packages[3].value.carbon_points, 5000, 12000)
            /\ \A choice \in [{"base", "bias", "bump"} -> {"lo", "hi"}] :
                    LET a == Amounts(payload, ExtremeDraws(payload, choice))
                    IN  /\ within(a.cash_amount, 7000, 18000)
                        /\ within(a.carbon_points_amount, 6000, 24000)
                        /\ within(a.hybrid_cash_amount, 7000, 13000)
                        /\ within(a.hybrid_carbon_points, 5000, 12000)

\* the draws of a call add up to more than the cash range allows, and the
\* response holds the upper limit
CashHeldAtUpperLimit ==
    /\ Responded(last, "incentive")
    /\ Drawn(last.draws, "cash_base") + Drawn(last.draws, "cash_heavy") > 18000
    /\ last.response[1].packages[1].value.cash_amount_try = 18000

(***************************************************************************)
(* C16.  Every successful assess call makes exactly twelve draws from its  *)
(* generator, the k-th of them the k-th output of a generator seeded with  *)
(* the request's seed plus 42, in the same order whatever the payload:     *)
(* repair_min, the repair max offset, refurb_min, the refurb max offset,   *)
(* tradein_min, the tradein max offset, then co2 and ewaste for the        *)
(* repair, for the refurb and for the trade-in.  The impacts of the        *)
(* response are these draws, and the generator is left twelve draws after  *)
(* its seed: nothing else in the call draws.                               *)
(***************************************************************************)
AssessDrawOrder ==
    << [name |-> "repair_min", lo |-> 8, hi |-> 12],
       [name |-> "repair_max_offset", lo |-> 4, hi |-> 6],
       [name |-> "refurb_min", lo |-> 16, hi |-> 22],
       [name |-> "refurb_max_offset", lo |-> 6, hi |-> 9],
       [name |-> "tradein_min", lo |-> 28, hi |-> 35],
       [name |-> "tradein_max_offset", lo |-> 8, hi |-> 12],
       [name |-> "repair_co2", lo |-> 82, hi |-> 93],
       [name |-> "repair_ewaste", lo |-> 80, hi |-> 92],
       [name |-> "refurb_co2", lo |-> 69, hi |-> 82],
       [name |-> "refurb_ewaste", lo |-> 62, hi |-> 78],
       [name |-> "tradein_co2", lo |-> 45, hi |-> 62],
       [name |-> "tradein_ewaste", lo |-> 35, hi |-> 55] >>

AssessDrawsInFixedOrder ==
    Responded(last, "assess") =>
        LET response == last.response[1]
            seeded == (response.request_id.seed + 42) % SeedSpace
            output(k) == RngAfter(seeded, k)
            impacts(option_id) == CardOf(response, option_id).estimated_impacts
            from(option_id, min_at, cap, co2_at) ==
                /\ impacts(option_id).rul_gain_months_min = last.draws[min_at].value
                /\ impacts(option_id).rul_gain_months_max =
                        Min(cap, last.draws[min_at].value + last.draws[min_at + 1].value)
                /\ impacts(option_id).co2_impact_score = last.draws[co2_at].value
                /\ impacts(option_id).ewaste_reduction_score = last.draws[co2_at + 1].value
        IN  /\ Len(last.draws) = 12
            /\ \A k \in 1..12 : last.draws[k].name = AssessDrawOrder[k].name
            /\ \A k \in 1..6 :
                    last.draws[k].value =
                        AssessDrawOrder[k].lo
                            + ((output(k) \div 8)
                                % (AssessDrawOrder[k].hi - AssessDrawOrder[k].lo + 1))
            /\ \A k \in 7..12 :
                    last.draws[k].value =
                        RoundDiv(AssessDrawOrder[k].lo * SeedSpace
                                    + (AssessDrawOrder[k].hi - AssessDrawOrder[k].lo) * output(k),
                                 SeedSpace)
            /\ last.rng = output(12)
            /\ from("repair_battery", 1, 16, 7)
            /\ from("refurb_buy", 3, 30, 9)
            /\ from("tradein_new", 5, 45, 11)

\* a call on an edited payload that recommends the repair, after its twelve
\* draws
RepairRecommendedAfterTwelveDraws ==
    /\ Responded(last, "assess")
    /\ last.response[1].decision_summary.recommended_primary_option_id = "repair_battery"
    /\ Len(last.draws) = 12
    /\ last.draws[12].name = "tradein_ewaste"
    /\ payload \notin Scenarios

(***************************************************************************)
(* C17.  A successful incentive call draws from its generator in this      *)
(* order: the two base draws (cash and carbon points; the carbon points    *)
(* first when sustain_bias > 0, the cash first otherwise), the hybrid      *)
(* cash, the hybrid carbon, then the two hybrid bias adjustments iff       *)
(* sustain_bias # 0 (the carbon one first when sustain_bias > 0), then the *)
(* heavy-usage bumps of cash and hybrid cash iff heavy_usage, then the     *)
(* bumps of carbon and hybrid carbon iff sustainability_priority is high.  *)
(* It makes 4 + 2*[sustain_bias # 0] + 2*[heavy_usage] +                   *)
(* 2*[sustainability high] draws, the k-th of them the generator's k-th    *)
(* output, and the amounts it returns are clamped after the last of them:  *)
(* each is the clamp of a sum that includes its bump.                      *)
(***************************************************************************)
IncentiveDrawsInOrder ==
    Responded(last, "incentive") =>
        LET response == last.response[1]
            seeded == (response.request_id.seed + 42) % SeedSpace
            name(k) == last.draws[k].name
            value(n) == Drawn(last.draws, n)
            sustain_bias ==
                map_priority(SustainabilityPriority(payload))
                    - map_priority(BudgetPriority(payload))
            biased == IF sustain_bias # 0 THEN 1 ELSE 0
            heavy == IF HeavyUsage(payload) THEN 1 ELSE 0
            high == IF SustainabilityPriority(payload) = "high" THEN 1 ELSE 0
            sign == IF sustain_bias > 0 THEN 1 ELSE IF sustain_bias < 0 THEN -1 ELSE 0
            range(n) ==
                CASE n = "cash_base" ->
                        IF sign > 0 THEN << 7500, 12000 >>
                        ELSE IF sign < 0 THEN << 13000, 17000 >> ELSE << 10000, 14500 >>
                  [] n = "carbon_base" ->
                        IF sign > 0 THEN << 16000, 22000 >>
                        ELSE IF sign < 0 THEN << 7000, 12000 >> ELSE << 11000, 17000 >>
                  [] n = "hybrid_cash" -> << 8500, 12000 >>
                  [] n = "hybrid_carbon" -> << 6000, 10000 >>
                  [] n = "hybrid_cash_bias" ->
                        IF sign > 0 THEN << 300, 900 >> ELSE << 400, 1200 >>
                  [] n = "hybrid_carbon_bias" ->
                        IF sign > 0 THEN << 400, 1200 >> ELSE << 300, 900 >>
                  [] n = "cash_heavy" -> << 600, 1600 >>
                  [] n = "hybrid_cash_heavy" -> << 300, 800 >>
                  [] n = "carbon_sustain" -> << 600, 1800 >>
                  [] n = "hybrid_carbon_sustain" -> << 200, 800 >>
        IN  /\ Len(last.draws) = 4 + 2 * biased + 2 * heavy + 2 * high
            /\ << name(1), name(2) >> =
                    IF sustain_bias > 0 THEN << "carbon_base", "cash_base" >>
                    ELSE << "cash_base", "carbon_base" >>
            /\ << name(3), name(4) >> = << "hybrid_cash", "hybrid_carbon" >>
            /\ biased = 1 =>
                    << name(5), name(6) >> =
                        IF sustain_bias > 0
                        THEN << "hybrid_carbon_bias", "hybrid_cash_bias" >>
                        ELSE << "hybrid_cash_bias", "hybrid_carbon_bias" >>
            /\ heavy = 1 =>
                    << name(5 + 2 * biased), name(6 + 2 * biased) >> =
                        << "cash_heavy", "hybrid_cash_heavy" >>
            /\ high = 1 =>
                    << name(5 + 2 * biased + 2 * heavy), name(6 + 2 * biased + 2 * heavy) >> =
                        << "carbon_sustain", "hybrid_carbon_sustain" >>
            /\ \A k \in 1..Len(last.draws) :
                    last.draws[k].value =
                        range(name(k))[1]
                            + ((RngAfter(seeded, k) \div 8)
                                % (range(name(k))[2] - range(name(k))[1] + 1))
            /\ last.rng = RngAfter(seeded, Len(last.draws))
            /\ response.packages[1].value.cash_amount_try =
                    clamp(value("cash_base") + value("cash_heavy"), 7000, 18000)
            /\ response.packages[2].value.carbon_points =
                    clamp(value("carbon_base") + value("carbon_sustain"), 6000, 24000)
            /\ response.packages[3].value.cash_amount_try =
                    clamp(Max(value("hybrid_cash") - sign * value("hybrid_cash_bias"), 7000)
                            + value("hybrid_cash_heavy"), 7000, 13000)
            /\ response.packages[3].value.carbon_points =
                    clamp(Max(value("hybrid_carbon") + sign * value("hybrid_carbon_bias"), 5000)
                            + value("hybrid_carbon_sustain"), 5000, 12000)

\* a call that makes all ten draws, the carbon points first
TenDrawsThenClamp ==
    /\ Responded(last, "incentive")
    /\ Len(last.draws) = 10
    /\ last.draws[1].name = "carbon_base"
    /\ last.draws[10].name = "hybrid_carbon_sustain"

(***************************************************************************)
(* C18.  The notes of an incentive response hold, in this order and each   *)
(* at most once: the wipe-certificate sentence iff prefers_financing is    *)
(* false and sustainability_priority is high, the heavy-usage sentence iff *)
(* charge_cycles >= 850 or frame_drop_rate >= 0.15 or                      *)
(* repair_history_count >= 2, the carbon sentence iff                      *)
(* sustainability_priority is high, the budget sentence iff                *)
(* budget_priority is high.  The fallback sentence is there iff none of    *)
(* the four holds, and then it is the only note.                           *)
(***************************************************************************)
NotesFollowTheirConditions ==
    Responded(last, "incentive") =>
        LET notes == last.response[1].notes
            present(sentence) == \E k \in 1..Len(notes) : notes[k] = sentence
            sentences == << "wipe_certificate", "heavy_usage", "carbon", "budget", "fallback" >>
            rank(sentence) == CHOOSE r \in 1..5 : sentences[r] = sentence
            prefs == payload.user_preferences.f
            signals == payload.signals.f
            financing_false == prefs["prefers_financing"] = JBool(FALSE)
            sustainability_high == prefs["sustainability_priority"] = JStr("high")
            budget_high == prefs["budget_priority"] = JStr("high")
            heavy ==
                \/ signals["charge_cycles"].n >= 850
                \/ FloatOf(signals["frame_drop_rate"]) >= 15
                \/ signals["repair_history_count"].n >= 2
        IN  /\ \A k \in 1..Len(notes) : notes[k] \in
                    {sentences[r] : r \in 1..5}
            /\ \A i \in 1..Len(notes) : \A j \in 1..Len(notes) :
                    i < j => rank(notes[i]) < rank(notes[j])
            /\ present("wipe_certificate") <=> (financing_false /\ sustainability_high)
            /\ present("heavy_usage") <=> heavy
            /\ present("carbon") <=> sustainability_high
            /\ present("budget") <=> budget_high
            /\ present("fallback") <=>
                    ~(\/ financing_false /\ sustainability_high
                      \/ heavy
                      \/ sustainability_high
                      \/ budget_high)
            /\ present("fallback") => notes = << "fallback" >>

\* all four conditions hold and the four sentences are there, the budget
\* sentence last
AllFourNotes ==
    /\ Responded(last, "incentive")
    /\ last.response[1].notes = << "wipe_certificate", "heavy_usage", "carbon", "budget" >>

(***************************************************************************)
(* C19.  key_drivers holds exactly three distinct feature names: the three *)
(* largest of the five contribution ratios (battery deficit/60,            *)
(* cycles/1200, frame_drop/0.4, repairs/4, age/48) in descending order of  *)
(* contribution, equal contributions in the enumeration order              *)
(* battery_health_percent, charge_cycles, frame_drop_rate,                 *)
(* repair_history_count, device_age_months.  The ratios are compared here  *)
(* by their values, in 1/2400.                                             *)
(***************************************************************************)
KeyDriversAreTopThreeStable ==
    (Responded(last, "assess") /\ DocumentedValid(payload)) =>
        LET drivers == last.response[1].rul_estimate.key_drivers
            enumeration ==
                << "battery_health_percent", "charge_cycles", "frame_drop_rate",
                   "repair_history_count", "device_age_months" >>
            ratio ==
                << (100 - payload.signals.f["battery_health_percent"].n) * 40,
                   payload.signals.f["charge_cycles"].n * 2,
                   FloatOf(payload.signals.f["frame_drop_rate"]) * 60,
                   payload.signals.f["repair_history_count"].n * 600,
                   payload.device.f["age_months"].n * 50 >>
            precedes(i, j) == ratio[i] > ratio[j] \/ (ratio[i] = ratio[j] /\ i < j)
            at(k) == CHOOSE i \in 1..5 : enumeration[i] = drivers[k]
        IN  /\ Len(drivers) = 3
            /\ \A k \in 1..3 : drivers[k] \in {enumeration[i] : i \in 1..5}
            /\ drivers[1] # drivers[2] /\ drivers[2] # drivers[3] /\ drivers[1] # drivers[3]
            /\ precedes(at(1), at(2))
            /\ precedes(at(2), at(3))
            /\ \A i \in 1..5 \ {at(1), at(2), at(3)} : precedes(at(3), i)

\* frame_drop/0.4 and age/48 are both 0.375, and device_age_months is listed
\* while frame_drop_rate, before it in the enumeration, is not
EqualRatiosOrderedAgainstEnumeration ==
    /\ Responded(last, "assess")
    /\ DocumentedValid(payload)
    /\ FloatOf(payload.signals.f["frame_drop_rate"]) * 60 = payload.device.f["age_months"].n * 50
    /\ payload.device.f["age_months"].n = 18
    /\ last.response[1].rul_estimate.key_drivers[3] = "device_age_months"

(***************************************************************************)
(* C20.  For every valid payload the rationale of an assess response       *)
(* contains the extra data-wipe clause iff sustainability_priority is      *)
(* "high" and prefers_financing is false.                                  *)
(***************************************************************************)
WipeClauseFollowsPreferences ==
    (Responded(last, "assess") /\ DocumentedValid(payload)) =>
        (last.response[1].decision_summary.rationale.wipe_clause
            <=> /\ payload.user_preferences.f["sustainability_priority"] = JStr("high")
                /\ payload.user_preferences.f["prefers_financing"] = JBool(FALSE))

\* sustainability is high and financing is not preferred, the refurbished
\* device is recommended, and its rationale has no data-wipe clause
RefurbRationaleWithoutWipeClause ==
    /\ Responded(last, "assess")
    /\ DocumentedValid(payload)
    /\ payload.user_preferences.f["sustainability_priority"] = JStr("high")
    /\ payload.user_preferences.f["prefers_financing"] = JBool(FALSE)
    /\ last.response[1].decision_summary.recommended_primary_option_id = "refurb_buy"
    /\ last.response[1].decision_summary.rationale.branch = "refurb_buy"
    /\ ~last.response[1].decision_summary.rationale.wipe_clause

ComponentRanges ==
    [repair_battery |-> [cost |-> << 75, 95 >>, sust |-> << 75, 95 >>, perf |-> << 42, 74 >>],
     refurb_buy |-> [cost |-> << 58, 80 >>, sust |-> << 65, 85 >>, perf |-> << 70, 92 >>],
     tradein_new |-> [cost |-> << 35, 68 >>, sust |-> << 40, 70 >>, perf |-> << 90, 99 >>]]

ComponentScoresWithinRanges ==
    Responded(last, "assess") =>
        LET within(x, range, unit) == range[1] * unit <= x /\ x <= range[2] * unit
            reported(option_id) == CardOf(last.response[1], option_id).scores
            unrounded ==
                [repair_battery |->
                    [cost |-> RepairCost(payload), sust |-> RepairSust(payload),
                     perf |-> RepairPerf(payload)],
                 refurb_buy |->
                    [cost |-> RefurbCost(payload), sust |-> RefurbSust(payload),
                     perf |-> RefurbPerf(payload)],
                 tradein_new |->
                    [cost |-> TradeinCost(payload), sust |-> TradeinSust(payload),
                     perf |-> TradeinPerf(payload)]]
        IN  /\ \A option_id \in {"repair_battery", "refurb_buy", "tradein_new"} :
                    /\ within(reported(option_id).cost_score,
                              ComponentRanges[option_id].cost, 1)
                    /\ within(reported(option_id).sustainability_score,
                              ComponentRanges[option_id].sust, 1)
                    /\ within(reported(option_id).performance_score,
                              ComponentRanges[option_id].perf, 1)
                    /\ \A part \in {"cost", "sust", "perf"} :
                            within(unrounded[option_id][part],
                                   ComponentRanges[option_id][part], 3600)
            /\ within(HeavyUsageBlend(payload), << 0, 120 >>, 3600)
            /\ within(BatteryDegradation(payload), << 0, 100 >>, 3600)

\* a valid payload whose usage ratios average above 1.2: heavy_usage is held
\* at 1.2
HeavyUsageHeldAtLimit ==
    /\ Responded(last, "assess")
    /\ DocumentedValid(payload)
    /\ payload.signals.f["charge_cycles"].n * 100
            + FloatOf(payload.signals.f["frame_drop_rate"]) * 3000
            + payload.signals.f["repair_history_count"].n * 30000 > 120 * 3600
    /\ HeavyUsageBlend(payload) = 120 * 3600

(***************************************************************************)
(* C23.  Each of the three option ids is reachable as the recommendation:  *)
(* for each of repair_battery, refurb_buy and tradein_new there is a valid *)
(* payload on which the assess call returns it as                          *)
(* recommended_primary_option_id, and with it takes that branch of the     *)
(* rationale.                                                              *)
(***************************************************************************)
EveryOptionRecommendedForSomePayload ==
    Responded(last, "assess") =>
        \A option_id \in {"repair_battery", "refurb_buy", "tradein_new"} :
            \E p \in Payloads :
                /\ DocumentedValid(p)
                /\ AssessLogic(p, 0).response # << >>
                /\ AssessLogic(p, 0).response[1].decision_summary
                        .recommended_primary_option_id = option_id
                /\ AssessLogic(p, 0).response[1].decision_summary.rationale.branch = option_id

\* the payload most favourable to the trade-in (a device hardly used,
\* performance first, budget and sustainability last, financing preferred):
\* the trade-in only ties with the refurbished device, which is recommended
TradeinOnlyTiesAtItsBest ==
    /\ Responded(last, "assess")
    /\ payload = lightly_used_input
    /\ CardOf(last.response[1], "tradein_new").scores.overall_score
            = CardOf(last.response[1], "refurb_buy").scores.overall_score
    /\ CardOf(last.response[1], "tradein_new").scores.overall_score
            > CardOf(last.response[1], "repair_battery").scores.overall_score
    /\ last.response[1].decision_summary.recommended_primary_option_id = "refurb_buy"

(***************************************************************************)
(* C24.  The RUL estimate is monotone in the device's age: of two valid    *)
(* payloads that differ only in device.age_months, the one with the larger *)
(* age never has the larger rul_months_min and never has the larger        *)
(* rul_months_max.  The payload of the call is compared with the same      *)
(* payload at every other age.                                             *)
(***************************************************************************)
AtAge(p, age_months) ==
    [p EXCEPT !.device.f["age_months"] = JInt(age_months)]

RulMonotoneInAge ==
    (Responded(last, "assess") /\ DocumentedValid(payload)) =>
        \A age_months \in 0..MaxAgeMonths :
            LET other == ComputeRulAndConfidence(AtAge(payload, age_months))
                this == last.response[1].rul_estimate
            IN  /\ age_months > payload.device.f["age_months"].n =>
                    /\ other.rul_months_min <= this.rul_months_min
                    /\ other.rul_months_max <= this.rul_months_max
                /\ age_months < payload.device.f["age_months"].n =>
                    /\ other.rul_months_min >= this.rul_months_min
                    /\ other.rul_months_max >= this.rul_months_max

\* past 72 months the age no longer lowers rul_point but still widens the
\* margin: a device is given a longer rul_months_max than the same device
\* some months younger
OlderDeviceLongerRulMax ==
    /\ Responded(last, "assess")
    /\ DocumentedValid(payload)
    /\ \E age_months \in 72..MaxAgeMonths :
            /\ age_months < payload.device.f["age_months"].n
            /\ ComputeRulAndConfidence(AtAge(payload, age_months)).rul_months_max
                    < last.response[1].rul_estimate.rul_months_max
            /\ ComputeRulAndConfidence(AtAge(payload, age_months)).rul_months_min
                    >= last.response[1].rul_estimate.rul_months_min

(***************************************************************************)
(* C25.  Every payload the assess validator accepts is accepted by the     *)
(* incentive validator too; and a payload whose only invalid fields are    *)
(* among those the incentive validator checks (charge_cycles,              *)
(* frame_drop_rate, repair_history_count, the three priorities,            *)
(* prefers_financing) is rejected by both validators, with the same first  *)
(* offending field.  The validator of the call is compared with what the   *)
(* other validator does on the same payload.                               *)
(***************************************************************************)
ValidatorsAgreeOnSharedFields ==
    last.call \in {"assess", "incentive"} =>
        LET engine ==
                IF last.call = "assess" /\ ~ValidatorReturned(last)
                THEN [exc |-> last.exc, msg |-> last.msg]
                ELSE EngineValidate(payload)
            incentive ==
                IF last.call = "incentive" /\ ~ValidatorReturned(last)
                THEN [exc |-> last.exc, msg |-> last.msg]
                ELSE IncentiveValidate(payload)
            offending == {DocumentedOrder[i] : i \in Offending(payload, DocumentedOrder)}
            shared == {IncentiveOrder[i] : i \in 1..Len(IncentiveOrder)}
        IN  /\ engine.exc = "none" => incentive.exc = "none"
            /\ (HasSections(payload) /\ offending # {} /\ offending \subseteq shared) =>
                    /\ engine.exc = "ValueError"
                    /\ incentive.exc = "ValueError"
                    /\ engine.msg = incentive.msg
                    /\ MessageNames(engine.msg, FirstOffending(payload, IncentiveOrder))

\* charge_cycles is a boolean and nothing else is invalid: the incentive call
\* answers, and the assess validator accepts the payload as well
BooleanCyclesPassesBoth ==
    /\ Responded(last, "incentive")
    /\ payload.signals.f["charge_cycles"].kind = "bool"
    /\ {DocumentedOrder[i] : i \in Offending(payload, DocumentedOrder)}
            = {"signals.charge_cycles"}
    /\ EngineValidate(payload).exc = "none"
====
